---------------------------- MODULE Spec2Model ----------------------------
(***************************************************************************)
(* NAD-Alert-Bot: the buffering / grouping / delivery pipeline.            *)
(*                                                                         *)
(*   webhook -> incoming_queue -> process_incoming_messages                *)
(*           -> processed_buffer -> check_and_process_buffer               *)
(*           -> outgoing_queue -> telegram_sender -> send_telegram_message *)
(*                                                                         *)
(* Time is the event loop's clock (loop.time()), counted in whole seconds. *)
(* On the aggregation side the clock advances only when no task is ready   *)
(* to run: the flush scheduler's sleep(1) ends at its deadline and code    *)
(* between two suspension points takes no time.  On the delivery side a    *)
(* sleep ends at or after its deadline and an outbound HTTP call takes any *)
(* amount of time.                                                         *)
(*                                                                         *)
(* log_stats reads the store once a minute.  The link format_alert_message *)
(* renders for a bucket is a function of the bucket and of                 *)
(* force_session_link alone, and is modelled on its own.                   *)
(***************************************************************************)
EXTENDS Integers, Sequences, FiniteSets, TLC

VARIABLES
    now,                     \* loop.time()
    grouping_max_count,      \* config.alert.grouping_max_count
    max_buffer_time,         \* config.alert.max_buffer_time
    force_session_link,      \* config.alert.force_session_link
    alerts,                  \* format_alert_message's argument: the events of one bucket
    link,                    \* the trailing link format_alert_message renders for it
    total_received_messages, \* MessageQueues.total_received_messages
    incoming_queue,          \* MessageQueues.incoming_queue
    processed_buffer,        \* MessageQueues.processed_buffer
    first_valid_alert_time,  \* MessageQueues.first_valid_alert_time
    buffer_lock,             \* MessageQueues.buffer_lock: "free" or the task that holds it
    ingest_pc,               \* position of process_incoming_messages
    stats_wake,              \* end of log_stats' asyncio.sleep(60)
    outgoing_queue,          \* MessageQueues.outgoing_queue
    flush_pc,                \* position of check_and_process_buffer
    flush_wake,              \* end of its asyncio.sleep(1)
    buffer,                  \* its local variable buffer
    pending,                 \* history: events appended since the last clear_buffer
    drained,                 \* history: the value of pending at the last clear_buffer
    clears,                  \* history: bucket counts returned by the last two clear_buffer calls
    appended,                \* history: loop time of each add_to_buffer since the last clear_buffer
    accepted,                \* history: numbers of the events add_to_buffer has taken
    snapshots,               \* history: every mapping clear_buffer has returned
    seen,                    \* history: events in the store when should_process_buffer last said yes
    produced,                \* history: number of digests put on outgoing_queue
    sender_pc,               \* position of telegram_sender
    message,                 \* its local variable message
    last_send_time,          \* its local variable last_send_time
    attempt,                 \* send_telegram_message's loop variable attempt
    sender_wake,             \* end of the asyncio.sleep the sender is in
    post_start,              \* history: start time of the current / latest client.post
    first_start,             \* history: start time of the first client.post of the current / latest digest
    sleeps,                  \* history: backoff delays slept for the current digest
    done,                    \* history: the digests telegram_sender has finished with
    transport_log,           \* history: digest number of every client.post, in order
    task_done                \* history: calls of outgoing_queue.task_done()

storeVars == <<total_received_messages, incoming_queue,
               processed_buffer, first_valid_alert_time, buffer_lock, ingest_pc,
               stats_wake, flush_pc, flush_wake, buffer,
               pending, drained, clears, appended, accepted, snapshots, seen>>
senderVars == <<sender_pc, message, last_send_time, attempt, sender_wake,
                post_start, first_start, sleeps, done, transport_log, task_done>>
configVars == <<grouping_max_count, max_buffer_time, force_session_link>>
renderVars == <<alerts, link>>
flushVars == <<flush_pc, flush_wake, buffer, drained, clears, snapshots, seen>>
vars == <<now, configVars, renderVars, outgoing_queue, produced, storeVars, senderVars>>

---------------------------------------------------------------------------
(* Bounds of the model *)

MaxTime == 4         \* horizon of the aggregation side
MaxMessages == 3     \* webhook requests
MaxSendTime == 10    \* horizon of the delivery side
MaxDigests == 3      \* digests handed to the delivery side
MaxBucket == 11      \* events of the bucket format_alert_message is given

(* Configuration values tried (config.py gives both fields type int, no range) *)
GroupingMaxCounts == {0, 1, 2}
MaxBufferTimes == {1, 2}

---------------------------------------------------------------------------
(* Incoming messages *)

\* The webhook bodies the environment posts.  kind "pass": validates and passes
\* the priority / ignore / rule filters; "filtered": validates, rejected by a
\* filter; "invalid": Alert.model_validate raises; "raises": validates, and the
\* filter expression raises (s_msg is None: 'PTsecurity' in None).  src: the
\* src/dst HostInfo objects are present.
Messages ==
    [kind : {"pass"}, sid : {1001}, netloc : {"nad2.example.com"}, src : {TRUE}]
    \cup [kind : {"pass"}, sid : {1002}, netloc : {"nad.example.com"}, src : BOOLEAN]
    \cup [kind : {"filtered", "invalid", "raises"}, sid : {1001}, netloc : {"nad.example.com"}, src : {TRUE}]

\* The n-th message received (n identifies the event in the histories).
Stamp(m, n) == [kind |-> m.kind, sid |-> m.sid, netloc |-> m.netloc, src |-> m.src, n |-> n]

EmptyBuffer == [k \in {} |-> <<>>]

\* bool(dict)
Truthy(buf) == DOMAIN buf # {}

\* sum(len(alerts) for alerts in buffer.values())
RECURSIVE SumLen(_, _)
SumLen(buf, keys) ==
    IF keys = {} THEN 0
    ELSE LET k == CHOOSE x \in keys : TRUE
         IN  Len(buf[k]) + SumLen(buf, keys \ {k})
BufferSize(buf) == SumLen(buf, DOMAIN buf)

---------------------------------------------------------------------------
(* MessageQueues (queues.py) *)

\* key = (sid, nad_source)
BufferKey(alert) == <<alert.sid, alert.netloc>>

\* (a variant that stores the alert in place of the bucket)
BufferAppendOverwrite(buf, key, alert) ==
    [k \in DOMAIN buf \cup {key} |-> IF k = key THEN <<alert>> ELSE buf[k]]

\* self.processed_buffer[key].append(alert) on a defaultdict(list)
BufferAppend(buf, key, alert) ==
    [k \in DOMAIN buf \cup {key} |->
        IF k = key
        THEN (IF k \in DOMAIN buf THEN Append(buf[k], alert) ELSE <<alert>>)
        ELSE buf[k]]

\* (a variant that restarts the window at every append)
WindowStartAlways(buf, fvat, t) == t

\* if not self.processed_buffer: self.first_valid_alert_time = self.loop.time()
WindowStart(buf, fvat, t) == IF ~Truthy(buf) THEN t ELSE fvat

\* should_process_buffer, as a truth value
ShouldProcessBuffer(buf, fvat, t) ==
    \/ Cardinality(DOMAIN buf) >= grouping_max_count
    \/ (Truthy(buf) /\ t - fvat >= max_buffer_time)

\* clear_buffer: the returned mapping, the new store, the new window start
ClearBufferResult(buf) == buf
\* (a variant that leaves the mapping in place)
ClearBufferStoreKept(buf) == buf
ClearBufferStore(buf) == EmptyBuffer
ClearBufferWindow(fvat) == 0

\* async with self.buffer_lock: entry (the lock is free: no waiting)
LockAcquire(lock, task) == task
\* (a variant that leaves the with block without releasing)
LockReleaseNever(lock) == lock
\* async with self.buffer_lock: exit, before the method returns
LockRelease(lock) == "free"

\* What one iteration of process_incoming_messages does with a message
Accepted(msg) == msg.kind = "pass"
Raises(msg) == msg.kind \in {"invalid", "raises"}

\* (a variant without the except clause)
IngestCatchesNothing(msg) == FALSE
\* process_incoming_messages: except Exception as e: logger.exception(...)
IngestCatches(msg) == TRUE

\* await asyncio.sleep(60) in log_stats
StatsInterval == 60

\* (a variant that looks a key up in the defaultdict, which inserts an empty list)
LogStatsLookup(buf) ==
    [k \in DOMAIN buf \cup {<<0, "">>} |-> IF k \in DOMAIN buf THEN buf[k] ELSE <<>>]
\* log_stats: the store after sum(len(alerts) for alerts in processed_buffer.values())
LogStatsStore(buf) == buf

\* await asyncio.sleep(1) in check_and_process_buffer
FlushInterval == 1

\* (a variant that renders whatever clear_buffer returned)
HasAlertsAlways(buf) == TRUE

\* check_and_process_buffer: if buffer:
HasAlerts(buf) == Truthy(buf)

\* format_ip_port: getattr(getattr(a, attr), 'ip') raises AttributeError when an
\* alert of the snapshot has src (or dst) None.
ProcessAlertsRaises(buf) ==
    \E k \in DOMAIN buf : \E i \in 1..Len(buf[k]) : ~buf[k][i].src

\* process_alerts: the header line
Header(total_alerts) ==
    IF total_alerts = 0 THEN "No valid alerts to report."
    ELSE IF total_alerts = 1 THEN "New Alert"
    ELSE "New Alerts"

\* process_alerts: the digest (n numbers the digests in the order they are produced)
ProcessAlerts(buf, n) ==
    [n |-> n, total_alerts |-> BufferSize(buf), unique_alerts |-> Cardinality(DOMAIN buf),
     header |-> Header(BufferSize(buf))]

\* (a variant that puts the message at the front)
AddToOutgoingFront(q, m) == <<m>> \o q

\* await self.outgoing_queue.put(message)
AddToOutgoing(q, m) == Append(q, m)

\* return await self.outgoing_queue.get()
GetFromOutgoing(q) == Head(q)
RestOfOutgoing(q) == Tail(q)

---------------------------------------------------------------------------
(* telegram.py *)

TELEGRAM_SEND_INTERVAL == 5
max_retries == 3

NoMessage == [n |-> 0, total_alerts |-> 0, unique_alerts |-> 0, header |-> Header(0)]

\* What one client.post / raise_for_status / response.json() can end in:
\*   "ok"          the call returns a response that parses;
\*   "http_error"  an httpx.HTTPError is raised;
\*   "error"       any other exception is raised (e.g. response.json() on a body
\*                 that is not JSON).
Outcomes == {"ok", "http_error", "error"}

\* except httpx.HTTPError as e:
Retried(outcome) == outcome = "http_error"

\* if attempt < max_retries - 1: sleep, else: raise
RetriesLeft(a) == a < max_retries - 1

\* A backoff that counts attempts from one: 2, 4 instead of 1, 2
BackoffFromOne(a) == 2 ^ (a + 1)

\* await asyncio.sleep(2 ** attempt)
Backoff(a) == 2 ^ a

\* (a variant whose handler lets the exception through)
SenderCatchesNothing(outcome) == FALSE

\* telegram_sender: except Exception as e: logger.exception(...)
SenderCatches(outcome) == TRUE

\* (a variant that sleeps for the time already elapsed)
RateLimitDelayElapsed(t, last) ==
    IF t - last < TELEGRAM_SEND_INTERVAL THEN t - last ELSE 0

\* time_since_last_send < TELEGRAM_SEND_INTERVAL: sleep(INTERVAL - time_since_last_send)
RateLimitDelay(t, last) ==
    IF t - last < TELEGRAM_SEND_INTERVAL THEN TELEGRAM_SEND_INTERVAL - (t - last) ELSE 0

\* (a variant that never records the send)
LastSendTimeKept(outcome, last, t) == last

\* last_send_time after a successful send_telegram_message / after a failed one
LastSendTimeAfter(outcome, last, t) == IF outcome = "ok" THEN t ELSE last

---------------------------------------------------------------------------
(* Rendering of a bucket's link (alerts.py) *)

\* An Optional field is <<>> for None and <<v>> for the value v.
\* The alerts of one bucket: they share the key, hence s_id; has_flow_id[i] tells
\* whether the i-th carries a flow id.  ts_start and flow_url are present.
Bucket(s_id, has_flow_id) ==
    [i \in 1..Len(has_flow_id) |->
        [s_id |-> s_id,
         flow_id |-> IF has_flow_id[i] THEN <<i>> ELSE <<>>,
         flow_url |-> [kind |-> "session", netloc |-> "nad.example.com", flow |-> i],
         ts_start |-> i]]

Buckets ==
    {Bucket(s_id, f) : s_id \in {<<>>, <<1001>>},
                       f \in UNION {[1..n -> BOOLEAN] : n \in 1..MaxBucket}}

\* create_group_link: min(a.ts_start for a in alerts if a.ts_start)
Earliest(as) == CHOOSE t \in {as[i].ts_start : i \in 1..Len(as)} :
                    \A i \in 1..Len(as) : t <= as[i].ts_start

\* create_group_link: flow_ids = [a.flow_id for a in alerts if a.flow_id]
RECURSIVE FlowIds(_)
FlowIds(as) ==
    IF as = <<>> THEN <<>>
    ELSE Head(as).flow_id \o FlowIds(Tail(as))

\* (a variant that never names the rule)
SidConditionNone(sid) == <<>>
\* create_group_link: if sid is not None: filter_conditions.append(f"alert.sid == {sid}")
SidCondition(sid) ==
    IF sid # <<>> THEN <<[field |-> "alert.sid", op |-> "==", value |-> sid]>> ELSE <<>>

\* create_group_link: if len(flow_ids) <= 10
FlowIdLimit == 10

\* create_group_link: filter_conditions.append(f"id in [{flow_ids_str}]")
FlowIdCondition(flow_ids) ==
    IF Len(flow_ids) <= FlowIdLimit
    THEN <<[field |-> "id", op |-> "in", value |-> flow_ids]>>
    ELSE <<>>

\* create_group_link (alerts is not empty)
CreateGroupLink(as) ==
    [kind |-> "query",
     netloc |-> as[1].flow_url.netloc,
     from |-> Earliest(as),
     sources |-> "2",
     filter |-> SidCondition(as[1].s_id) \o FlowIdCondition(FlowIds(as))]

\* format_alert_message: link_text and link_url
TrailingLink(as, force) ==
    IF Len(as) = 1 /\ force
    THEN [text |-> "View Session in NAD", url |-> as[1].flow_url]
    ELSE [text |-> "View All Alerts in NAD", url |-> CreateGroupLink(as)]

NoLink == [text |-> "", url |-> [kind |-> "none"]]

---------------------------------------------------------------------------
\* MessageQueues.__init__ and the start of the tasks (main.py lifespan)
PipelineStart ==
    /\ now = 0
    /\ total_received_messages = 0
    /\ incoming_queue = <<>>
    /\ processed_buffer = EmptyBuffer
    /\ first_valid_alert_time = 0
    /\ buffer_lock = "free"
    /\ ingest_pc = "get"
    /\ stats_wake = 0
    /\ outgoing_queue = <<>>
    /\ flush_pc = "poll"
    /\ flush_wake = 0
    /\ buffer = EmptyBuffer
    /\ pending = <<>>
    /\ drained = <<>>
    /\ clears = <<>>
    /\ appended = <<>>
    /\ accepted = {}
    /\ snapshots = <<>>
    /\ seen = 0
    /\ produced = 0
    /\ sender_pc = "get"
    /\ message = NoMessage
    /\ last_send_time = 0
    /\ attempt = 0
    /\ sender_wake = 0
    /\ post_start = 0
    /\ first_start = 0
    /\ sleeps = <<>>
    /\ done = <<>>
    /\ transport_log = <<>>
    /\ task_done = 0

\* No bucket is being rendered apart from the pipeline's own.
Start ==
    /\ PipelineStart
    /\ alerts = <<>>
    /\ link = NoLink

Init ==
    /\ grouping_max_count \in GroupingMaxCounts
    /\ max_buffer_time \in MaxBufferTimes
    /\ force_session_link = FALSE
    /\ Start

\* A task of the aggregation side is ready to run.
StoreReady ==
    \/ (ingest_pc = "get" /\ incoming_queue # <<>>)
    \/ stats_wake <= now
    \/ flush_pc \in {"clear", "render"}
    \/ (flush_pc = "poll" /\ flush_wake <= now)

Advance ==
    /\ now' = now + 1
    /\ UNCHANGED <<configVars, renderVars, outgoing_queue, produced, storeVars, senderVars>>

\* The loop clock advances (the whole pipeline).
Tick == now < MaxSendTime /\ ~StoreReady /\ Advance

\* The loop clock advances (aggregation side alone).
StoreTick == now < MaxTime /\ ~StoreReady /\ Advance

\* The loop clock advances (delivery side alone).
SenderTick == now < MaxSendTime /\ Advance

\* handle_incoming_alert -> add_to_incoming
HandleIncomingAlert ==
    /\ total_received_messages < MaxMessages
    /\ \E m \in Messages :
          incoming_queue' = Append(incoming_queue, Stamp(m, total_received_messages + 1))
    /\ total_received_messages' = total_received_messages + 1
    /\ UNCHANGED <<now, configVars, renderVars, senderVars, outgoing_queue, produced,
                   processed_buffer, first_valid_alert_time, buffer_lock, ingest_pc,
                   stats_wake, flushVars, pending, appended, accepted>>

\* One iteration of process_incoming_messages: get, validate, filter, add_to_buffer
\* (add_to_buffer has no suspension point once it holds the lock).
ProcessIncomingMessage ==
    /\ ingest_pc = "get"
    /\ incoming_queue # <<>>
    /\ LET msg == Head(incoming_queue)
       IN  /\ incoming_queue' = Tail(incoming_queue)
           /\ IF Accepted(msg)
              THEN /\ buffer_lock = "free"
                   /\ first_valid_alert_time' =
                          WindowStart(processed_buffer, first_valid_alert_time, now)
                   /\ processed_buffer' =
                          BufferAppend(processed_buffer, BufferKey(msg), msg)
                   /\ buffer_lock' = LockRelease(LockAcquire(buffer_lock, "ingest"))
                   /\ pending' = Append(pending, msg)
                   /\ appended' = Append(appended, now)
                   /\ accepted' = accepted \cup {msg.n}
                   /\ ingest_pc' = "get"
              ELSE /\ ingest_pc' = IF Raises(msg) /\ ~IngestCatches(msg)
                                   THEN "terminated" ELSE "get"
                   /\ UNCHANGED <<first_valid_alert_time, processed_buffer, buffer_lock,
                                  pending, appended, accepted>>
    /\ UNCHANGED <<now, configVars, renderVars, senderVars, outgoing_queue, produced,
                   total_received_messages, stats_wake, flushVars>>

\* One iteration of log_stats: it reads the counters, the queue sizes and the
\* store for its log line (the counters it resets are read by nothing else and
\* are left out).
LogStats ==
    /\ now >= stats_wake
    /\ processed_buffer' = LogStatsStore(processed_buffer)
    /\ stats_wake' = now + StatsInterval
    /\ UNCHANGED <<now, configVars, renderVars, senderVars, outgoing_queue, produced,
                   total_received_messages, incoming_queue, first_valid_alert_time,
                   buffer_lock, ingest_pc, flushVars, pending, appended, accepted>>

\* check_and_process_buffer: if await message_queues.should_process_buffer()
FlushCheck ==
    /\ flush_pc = "poll"
    /\ now >= flush_wake
    /\ buffer_lock = "free"
    /\ buffer_lock' = LockRelease(LockAcquire(buffer_lock, "flush"))
    /\ IF ShouldProcessBuffer(processed_buffer, first_valid_alert_time, now)
       THEN /\ flush_pc' = "clear"
            /\ seen' = BufferSize(processed_buffer)
            /\ UNCHANGED flush_wake
       ELSE /\ flush_pc' = "poll"
            /\ flush_wake' = now + FlushInterval
            /\ UNCHANGED seen
    /\ UNCHANGED <<now, configVars, renderVars, senderVars, outgoing_queue, produced,
                   total_received_messages, incoming_queue,
                   processed_buffer, first_valid_alert_time, ingest_pc, stats_wake,
                   buffer, pending, drained, clears, appended, accepted, snapshots>>

\* check_and_process_buffer: buffer = await message_queues.clear_buffer(); if buffer:
FlushClear ==
    /\ flush_pc = "clear"
    /\ buffer_lock = "free"
    /\ buffer' = ClearBufferResult(processed_buffer)
    /\ processed_buffer' = ClearBufferStore(processed_buffer)
    /\ first_valid_alert_time' = ClearBufferWindow(first_valid_alert_time)
    /\ buffer_lock' = LockRelease(LockAcquire(buffer_lock, "flush"))
    /\ drained' = pending
    /\ pending' = <<>>
    /\ appended' = <<>>
    /\ clears' = <<Cardinality(DOMAIN buffer')>> \o SubSeq(clears, 1, IF clears = <<>> THEN 0 ELSE 1)
    /\ IF HasAlerts(buffer')
       THEN /\ flush_pc' = "render"
            /\ snapshots' = Append(snapshots, buffer')
            /\ UNCHANGED <<flush_wake, seen>>
       ELSE /\ flush_pc' = "poll"
            /\ flush_wake' = now + FlushInterval
            /\ seen' = 0
            /\ UNCHANGED snapshots
    /\ UNCHANGED <<now, configVars, renderVars, senderVars, outgoing_queue, produced,
                   total_received_messages, incoming_queue,
                   ingest_pc, stats_wake, accepted>>

\* check_and_process_buffer: message = process_alerts(buffer); add_to_outgoing(message).
\* No try/except surrounds the call: an exception ends the task.
FlushRender ==
    /\ flush_pc = "render"
    /\ IF ProcessAlertsRaises(buffer)
       THEN /\ flush_pc' = "terminated"
            /\ UNCHANGED <<outgoing_queue, produced, flush_wake>>
       ELSE /\ outgoing_queue' = AddToOutgoing(outgoing_queue, ProcessAlerts(buffer, produced + 1))
            /\ produced' = produced + 1
            /\ flush_pc' = "poll"
            /\ flush_wake' = now + FlushInterval
    /\ seen' = 0
    /\ UNCHANGED <<now, configVars, renderVars, senderVars,
                   total_received_messages, incoming_queue,
                   processed_buffer, first_valid_alert_time, buffer_lock, ingest_pc,
                   stats_wake, buffer, pending, drained, clears, appended, accepted,
                   snapshots>>

\* A producer calls add_to_outgoing (the delivery side taken alone: the flush
\* scheduler's FlushRender, at any time).
EnqueueDigest ==
    /\ produced < MaxDigests
    /\ outgoing_queue' = AddToOutgoing(outgoing_queue,
                                        [n |-> produced + 1, total_alerts |-> 1, unique_alerts |-> 1,
                                         header |-> Header(1)])
    /\ produced' = produced + 1
    /\ UNCHANGED <<now, configVars, renderVars, storeVars, senderVars>>

\* The sender starts a client.post for message m as attempt a.
StartPost(m, a) ==
    /\ sender_pc' = "post"
    /\ attempt' = a
    /\ post_start' = now
    /\ first_start' = IF a = 0 THEN now ELSE first_start
    /\ transport_log' = Append(transport_log, m.n)

\* telegram_sender: message = await get_from_outgoing(); rate-limit check
SenderGet ==
    /\ sender_pc = "get"
    /\ outgoing_queue # <<>>
    /\ message' = GetFromOutgoing(outgoing_queue)
    /\ outgoing_queue' = RestOfOutgoing(outgoing_queue)
    /\ sleeps' = <<>>
    /\ LET delay == RateLimitDelay(now, last_send_time)
       IN  IF delay > 0
           THEN /\ sender_pc' = "rate_sleep"
                /\ sender_wake' = now + delay
                /\ UNCHANGED <<attempt, post_start, first_start, transport_log>>
           ELSE /\ StartPost(message', 0)
                /\ UNCHANGED sender_wake
    /\ UNCHANGED <<now, configVars, renderVars, storeVars, produced, last_send_time, done, task_done>>

\* telegram_sender: the rate-limit sleep ends; send_telegram_message starts
SenderRateWake ==
    /\ sender_pc = "rate_sleep"
    /\ now >= sender_wake
    /\ StartPost(message, 0)
    /\ UNCHANGED <<now, configVars, renderVars, storeVars, outgoing_queue, produced, message,
                   last_send_time, sender_wake, sleeps, done, task_done>>

\* The digest leaves telegram_sender's loop body: finally: task_done()
Finish(result) ==
    /\ done' = Append(done, [n |-> message.n, result |-> result,
                              attempts |-> attempt + 1, sleeps |-> sleeps,
                              first |-> first_start, start |-> post_start, end |-> now])
    /\ task_done' = task_done + 1

\* send_telegram_message: one client.post ends
SenderPost ==
    /\ sender_pc = "post"
    /\ \E outcome \in Outcomes :
         /\ last_send_time' = LastSendTimeAfter(outcome, last_send_time, now)
         /\ IF outcome = "ok"
            THEN /\ sender_pc' = "get"
                 /\ Finish("Sent")
                 /\ UNCHANGED <<sender_wake, sleeps>>
            ELSE IF Retried(outcome) /\ RetriesLeft(attempt)
            THEN /\ sender_pc' = "backoff"
                 /\ sender_wake' = now + Backoff(attempt)
                 /\ sleeps' = Append(sleeps, Backoff(attempt))
                 /\ UNCHANGED <<done, task_done>>
            ELSE /\ sender_pc' = IF SenderCatches(outcome) THEN "get" ELSE "terminated"
                 /\ Finish("Failed")
                 /\ UNCHANGED <<sender_wake, sleeps>>
    /\ UNCHANGED <<now, configVars, renderVars, storeVars, outgoing_queue, produced, message,
                   attempt, post_start, first_start, transport_log>>

\* send_telegram_message: the backoff sleep ends; next attempt
SenderBackoffWake ==
    /\ sender_pc = "backoff"
    /\ now >= sender_wake
    /\ StartPost(message, attempt + 1)
    /\ UNCHANGED <<now, configVars, renderVars, storeVars, outgoing_queue, produced, message,
                   last_send_time, sender_wake, sleeps, done, task_done>>

\* The whole pipeline.
Next ==
    \/ Tick
    \/ HandleIncomingAlert
    \/ ProcessIncomingMessage
    \/ LogStats
    \/ FlushCheck
    \/ FlushClear
    \/ FlushRender
    \/ SenderGet
    \/ SenderRateWake
    \/ SenderPost
    \/ SenderBackoffWake

\* The aggregation side: webhook, ingestion consumer, flush scheduler.
StoreNext ==
    \/ StoreTick
    \/ HandleIncomingAlert
    \/ ProcessIncomingMessage
    \/ LogStats
    \/ FlushCheck
    \/ FlushClear
    \/ FlushRender

\* The delivery side: outgoing_queue and telegram_sender.
SenderNext ==
    \/ SenderTick
    \/ EnqueueDigest
    \/ SenderGet
    \/ SenderRateWake
    \/ SenderPost
    \/ SenderBackoffWake

Spec == Init /\ [][Next]_vars

\* The two sides meet only in outgoing_queue, which is unbounded: add_to_outgoing
\* never blocks the flush scheduler, and telegram_sender reads nothing else of
\* MessageQueues.  The properties of each side are checked on that side alone:
\* the aggregation side with the sender left out, the delivery side with
\* add_to_outgoing called by a producer at any time.
StoreSpec == Init /\ [][StoreNext]_vars

\* The delivery side does not read the grouping configuration: AlertConfig's defaults.
SenderInit ==
    /\ grouping_max_count = 10
    /\ max_buffer_time = 300
    /\ force_session_link = FALSE
    /\ Start
SenderSpec == SenderInit /\ [][SenderNext]_vars

\* The delivery side under fair scheduling: the event loop runs every task that
\* is ready, a sleep ends once its deadline has passed, the clock keeps
\* advancing (up to the horizon), and every client.post returns.  Nothing
\* obliges a producer to enqueue.
SenderFairness ==
    /\ WF_vars(SenderTick)
    /\ WF_vars(SenderGet)
    /\ WF_vars(SenderRateWake)
    /\ WF_vars(SenderPost)
    /\ WF_vars(SenderBackoffWake)
FairSenderSpec == SenderSpec /\ SenderFairness

\* format_alert_message renders the trailing link of the bucket it was given.
FormatAlertMessage ==
    /\ alerts # <<>>
    /\ link = NoLink
    /\ link' = TrailingLink(alerts, force_session_link)
    /\ UNCHANGED <<now, configVars, alerts, outgoing_queue, produced, storeVars, senderVars>>

\* Rendering taken alone: format_alert_message applied to any bucket, under both
\* values of force_session_link.
LinkInit ==
    /\ grouping_max_count = 10
    /\ max_buffer_time = 300
    /\ force_session_link \in BOOLEAN
    /\ PipelineStart
    /\ alerts \in Buckets
    /\ link = NoLink
LinkNext == FormatAlertMessage
LinkSpec == LinkInit /\ [][LinkNext]_vars

---------------------------------------------------------------------------
(* Properties of the aggregation store *)

\* The events of a history h with key k, in order
OfKey(h, k) ==
    LET Test(e) == BufferKey(e) = k
    IN  SelectSeq(h, Test)

KeysOf(h) == {BufferKey(h[i]) : i \in 1..Len(h)}

\* buf holds exactly the events of h, partitioned by key, each bucket in h's order
Partitions(buf, h) ==
    /\ BufferSize(buf) = Len(h)
    /\ DOMAIN buf = KeysOf(h)
    /\ \A k \in DOMAIN buf : buf[k] = OfKey(h, k)

\* C1: after N add_to_buffer calls with no clear_buffer in between the store holds
\* exactly the N events, each under its own key in append order, and the snapshot
\* clear_buffer returns is that same partition of all N events.
C1_AppendsPartitionedByKey ==
    /\ Partitions(processed_buffer, pending)
    /\ Partitions(buffer, drained)

\* A clear_buffer has just returned three events in two buckets.
C1_Witness ==
    /\ flush_pc = "render"
    /\ Len(drained) = 3
    /\ Cardinality(DOMAIN buffer) = 2

\* is_ready of the specification
IsReady ==
    /\ Truthy(processed_buffer)
    /\ \/ Cardinality(DOMAIN processed_buffer) >= grouping_max_count
       \/ now - first_valid_alert_time >= max_buffer_time

\* A step of the flush scheduler that evaluates should_process_buffer
IsFlushCheck == flush_pc = "poll" /\ (flush_pc' = "clear" \/ flush_wake' # flush_wake)

\* C2: should_process_buffer answers true iff the store is non-empty and (the
\* number of buckets >= grouping_max_count or the window has lasted
\* max_buffer_time), and it changes nothing in the store.
C2_ReadyIffNonEmptyAndDue ==
    [][IsFlushCheck =>
          /\ (flush_pc' = "clear") <=> IsReady
          /\ UNCHANGED <<processed_buffer, first_valid_alert_time>>]_vars

\* C3: clear_buffer returns the whole mapping and leaves the store empty with the
\* window start unset; a clear_buffer that follows another with no add_to_buffer
\* in between returns an empty snapshot.
C3_ClearTakesAll ==
    [][flush_pc = "clear" /\ flush_pc' # "clear" =>
          /\ buffer' = processed_buffer
          /\ processed_buffer' = EmptyBuffer
          /\ first_valid_alert_time' = 0
          /\ (clears # <<>> /\ pending = <<>>) => ~Truthy(buffer')]_vars

\* Two clear_buffer calls in a row: the first returned more buckets than
\* grouping_max_count, the second, with no append in between, returned none.
C3_Witness ==
    /\ Len(clears) = 2
    /\ clears[2] >= 2
    /\ clears[2] > grouping_max_count
    /\ clears[1] = 0
    /\ drained = <<>>
    /\ ~Truthy(processed_buffer)
    /\ first_valid_alert_time = 0

\* C4: a rendering failure does not end the flush scheduler task.
C4_RenderFailureContained == flush_pc # "terminated"

---------------------------------------------------------------------------
(* Properties of the delivery worker *)

Failed(i) == done[i].result = "Failed"
Sent(i) == done[i].result = "Sent"

\* The sender holds a digest it has not finished with.
Sending == sender_pc \in {"rate_sleep", "post", "backoff"}

\* Number of client.post calls made for digest n
RECURSIVE CountOf(_, _)
CountOf(log, n) ==
    IF log = <<>> THEN 0
    ELSE (IF Head(log) = n THEN 1 ELSE 0) + CountOf(Tail(log), n)

\* C5: a digest whose every transport call failed was given exactly max_retries
\* attempts with backoff sleeps 2^0, 2^1 between them, and no attempt afterwards.
C5_AlwaysFailingTakesMaxRetries ==
    \A i \in 1..Len(done) :
        Failed(i) =>
            /\ done[i].attempts = max_retries
            /\ done[i].sleeps = <<1, 2>>
            /\ CountOf(transport_log, done[i].n) = max_retries

\* C6: the starts of two successful transmissions are at least
\* TELEGRAM_SEND_INTERVAL apart.
C6_SuccessfulStartsSpaced ==
    \A i, j \in 1..Len(done) :
        (i < j /\ Sent(i) /\ Sent(j)) =>
            done[j].start - done[i].start >= TELEGRAM_SEND_INTERVAL

\* Two digests were sent one after the other, the second one queued while the
\* first was in flight; their starts are exactly TELEGRAM_SEND_INTERVAL apart.
C6_Witness ==
    /\ Len(done) = 2
    /\ Sent(1) /\ Sent(2)
    /\ done[2].start - done[1].start = TELEGRAM_SEND_INTERVAL

\* C7 as claimed: the first attempt of a digest starts at least
\* TELEGRAM_SEND_INTERVAL after the last transmission of the digest before it
\* ended, whether that digest was Sent or Failed.
C7_SpacedAfterAnyOutcome ==
    \A i \in 1..Len(done) - 1 :
        (Sent(i) \/ (Failed(i) /\ done[i].attempts = max_retries)) =>
            done[i + 1].first - done[i].end >= TELEGRAM_SEND_INTERVAL

\* C7 as amended: the first attempt of a digest starts at least
\* TELEGRAM_SEND_INTERVAL after the completion of every earlier successful
\* transmission (last_send_time); a failed digest does not reset the spacing.
C7_SpacedAfterSuccess ==
    /\ \A i, j \in 1..Len(done) :
          (i < j /\ Sent(i)) => done[j].first - done[i].end >= TELEGRAM_SEND_INTERVAL
    /\ \A i \in 1..Len(done) :
          (Sent(i) /\ sender_pc \in {"post", "backoff"}) =>
              first_start - done[i].end >= TELEGRAM_SEND_INTERVAL
    /\ \A i \in 1..Len(done) : Sent(i) => last_send_time >= done[i].end

\* A digest was sent, and the next one, already queued, was then attempted.
C7_Witness ==
    /\ Len(done) = 2
    /\ Sent(1)
    /\ done[2].first = done[1].end + TELEGRAM_SEND_INTERVAL

\* C8: digests reach the transport in the order they were enqueued: the digest
\* numbers of the client.post calls never decrease and skip no digest, the
\* finished digests are 1, 2, ... in order, and the digest in hand is the next.
C8_FifoDelivery ==
    /\ \A i \in 1..Len(transport_log) - 1 :
          /\ transport_log[i] <= transport_log[i + 1]
          /\ transport_log[i + 1] <= transport_log[i] + 1
    /\ transport_log # <<>> => transport_log[1] = 1
    /\ \A i \in 1..Len(done) : done[i].n = i
    /\ Sending => message.n = Len(done) + 1
    /\ \A i \in 1..Len(outgoing_queue) :
          outgoing_queue[i].n = Len(done) + (IF Sending THEN 1 ELSE 0) + i

\* Digest 1 was retried while digests 2 and 3 were queued behind it, then 2 was tried.
C8_Witness ==
    /\ Len(transport_log) = 3
    /\ transport_log = <<1, 1, 2>>
    /\ Len(outgoing_queue) = 1
    /\ outgoing_queue[1].n = 3

\* C9: a digest that ended Failed is dropped: it is not on the outgoing queue, not
\* in the sender's hands, and gets no further attempt; the sender task has not
\* ended and is back at its queue get or busy with a later digest.
C9_FailedDigestDropped ==
    /\ sender_pc \in {"get", "rate_sleep", "post", "backoff"}
    /\ \A i \in 1..Len(done) :
          Failed(i) =>
              /\ \A k \in 1..Len(outgoing_queue) : outgoing_queue[k].n # done[i].n
              /\ Sending => message.n # done[i].n
              /\ CountOf(transport_log, done[i].n) = done[i].attempts
    /\ task_done = Len(done)

\* Digest 1 failed after three attempts and digest 2 was then tried.
C9_Witness ==
    /\ Len(done) >= 1
    /\ Failed(1)
    /\ done[1].attempts = max_retries
    /\ done[1].sleeps = <<1, 2>>
    /\ sender_pc = "post"
    /\ message.n = 2

\* C10: a digest is given up only after max_retries attempts, whatever made its
\* transport calls fail.
C10_EveryFailureRetried ==
    \A i \in 1..Len(done) : Failed(i) => done[i].attempts >= max_retries

\* Sum of a sequence of sleeps
RECURSIVE SumSeq(_)
SumSeq(q) == IF q = <<>> THEN 0 ELSE Head(q) + SumSeq(Tail(q))

\* The backoff sleeps before attempt k succeeds: 2^0, ..., 2^(k-2)
BackoffsBefore(k) == [i \in 1..(k - 1) |-> 2 ^ (i - 1)]

\* The index in done of the last digest that was Sent, 0 when there is none
LastSent ==
    LET S == {i \in 1..Len(done) : Sent(i)}
    IN  IF S = {} THEN 0 ELSE CHOOSE i \in S : \A j \in S : j <= i

---------------------------------------------------------------------------
(* Properties of the flush scheduler *)

\* A step of check_and_process_buffer that puts a digest on the outgoing queue
IsEnqueue == outgoing_queue' # outgoing_queue

\* A step that drains the store
IsDrain == flush_pc = "clear" /\ flush_pc' # "clear"

\* C12: every digest check_and_process_buffer puts on the outgoing queue is
\* rendered from the non-empty snapshot clear_buffer returned; a poll on which
\* should_process_buffer is false drains nothing (the store is drained only
\* after a poll on which it was true); a drain that returns an empty snapshot
\* produces no digest; for every grouping_max_count and max_buffer_time.
C12_DigestFromNonEmptyDrain ==
    [][/\ IsEnqueue =>
              /\ flush_pc = "render"
              /\ Truthy(buffer) /\ drained # <<>> /\ Partitions(buffer, drained)
              /\ outgoing_queue' = Append(outgoing_queue, ProcessAlerts(buffer, produced + 1))
              /\ ProcessAlerts(buffer, produced + 1).total_alerts = Len(drained)
       /\ (IsFlushCheck /\ ~ShouldProcessBuffer(processed_buffer, first_valid_alert_time, now)) =>
              /\ flush_pc' = "poll"
              /\ UNCHANGED <<processed_buffer, first_valid_alert_time, buffer, pending, outgoing_queue>>
       /\ (flush_pc # "clear" /\ flush_pc' = "clear") =>
              ShouldProcessBuffer(processed_buffer, first_valid_alert_time, now)
       /\ (pending # <<>> /\ pending' = <<>>) => IsDrain
       /\ (IsDrain /\ ~Truthy(buffer')) =>
              /\ flush_pc' = "poll"
              /\ UNCHANGED <<outgoing_queue, produced>>
      ]_vars

\* A drain that returned nothing (grouping_max_count = 0) produced no digest, and
\* the only digest on the outgoing queue is that of the one event drained before.
C12_Witness ==
    /\ Len(clears) = 2
    /\ clears[1] = 0
    /\ clears[2] = 1
    /\ produced = 1
    /\ Len(outgoing_queue) = 1
    /\ outgoing_queue[1].total_alerts = 1
    /\ flush_pc = "poll"

\* A step in which add_to_buffer runs
IsAppend == Len(appended') = Len(appended) + 1

\* C13: add_to_buffer sets first_valid_alert_time to the loop time exactly when
\* the store was empty just before the call and leaves it unchanged otherwise;
\* whenever the store is non-empty first_valid_alert_time is the time of the
\* first append since the last clear_buffer (or since start), and it does not
\* change while the window stays open.
C13_WindowStartIsFirstAppend ==
    /\ [](Truthy(processed_buffer) =>
              /\ Len(appended) = BufferSize(processed_buffer)
              /\ first_valid_alert_time = appended[1]
              /\ \A i \in 1..Len(appended) : first_valid_alert_time <= appended[i]
              /\ first_valid_alert_time <= now)
    /\ [][/\ IsAppend =>
                first_valid_alert_time' =
                    IF ~Truthy(processed_buffer) THEN now ELSE first_valid_alert_time
          /\ (Truthy(processed_buffer) /\ Truthy(processed_buffer')) =>
                first_valid_alert_time' = first_valid_alert_time
         ]_vars

\* Two events were appended at different times with no clear_buffer in between:
\* the window start is the time of the first.
C13_Witness ==
    /\ Len(appended) = 2
    /\ appended[1] = 1
    /\ appended[2] = 2
    /\ BufferSize(processed_buffer) = 2
    /\ first_valid_alert_time = 1

\* Number of snapshots whose digest is due: all but the one being rendered
Rendered == Len(snapshots) - (IF flush_pc = "render" THEN 1 ELSE 0)

\* C14: an event appended to the empty store and followed by no other append is
\* drained by the flush scheduler once max_buffer_time has elapsed (the clock
\* does not pass the deadline while the scheduler has a step to take: fair
\* scheduling, one-second polling), and exactly one digest is enqueued for its
\* snapshot, with the singular header "New Alert".
C14_TimeFlushOneDigest ==
    /\ (Truthy(processed_buffer) /\ Len(appended) = 1) =>
           now - first_valid_alert_time <= max_buffer_time
    /\ produced = Rendered
    /\ Len(outgoing_queue) = Rendered
    /\ \A j \in 1..Rendered :
           BufferSize(snapshots[j]) = 1 =>
               /\ outgoing_queue[j].total_alerts = 1
               /\ outgoing_queue[j].header = "New Alert"

---------------------------------------------------------------------------
(* Properties of the lock and of the task loops *)

\* The numbers of the events a mapping holds
EventsOf(buf) == UNION {{buf[k][i].n : i \in 1..Len(buf[k])} : k \in DOMAIN buf}

\* C15: no task holds buffer_lock at a suspension point (every state lies between
\* two steps, each of which runs from one suspension point to the next); while
\* the flush scheduler renders and enqueues, the lock is free and the snapshot
\* it works on is the mapping clear_buffer returned, of which the store holds
\* no event.
C15_LockNotHeldAcrossSuspension ==
    /\ buffer_lock = "free"
    /\ flush_pc = "render" =>
           /\ snapshots # <<>>
           /\ buffer = snapshots[Len(snapshots)]
           /\ EventsOf(buffer) \cap EventsOf(processed_buffer) = {}

\* The flush scheduler is about to render a snapshot while add_to_buffer has
\* already put a later event into the store.
C15_Witness ==
    /\ flush_pc = "render"
    /\ buffer_lock = "free"
    /\ Truthy(buffer)
    /\ Truthy(processed_buffer)
    /\ appended # <<>>

\* A step of process_incoming_messages that takes a message it does not accept
IsReject ==
    /\ incoming_queue # <<>>
    /\ incoming_queue' = Tail(incoming_queue)
    /\ ~Accepted(Head(incoming_queue))

\* C16: a message that fails validation, raises while being filtered, or is
\* rejected by the priority / ignore-list / rule-name filters leaves the store
\* and the window start unchanged; process_incoming_messages does not end and
\* is back at its queue get, ready for the next message.
C16_RejectedMessageChangesNothing ==
    /\ [][IsReject =>
              /\ UNCHANGED <<processed_buffer, first_valid_alert_time, pending, appended>>
              /\ ingest_pc' = "get"]_vars
    /\ [](ingest_pc = "get")

\* The first two messages were not accepted and the third one was then appended.
C16_Witness ==
    /\ total_received_messages = 3
    /\ incoming_queue = <<>>
    /\ snapshots = <<>>
    /\ Len(pending) = 1
    /\ pending[1].n = 3
    /\ EventsOf(processed_buffer) = {3}
    /\ ingest_pc = "get"

\* Every bucket of a mapping holds at least one event
NoEmptyBucket(buf) == \A k \in DOMAIN buf : Len(buf[k]) >= 1

\* A step of log_stats
IsLogStats == stats_wake' # stats_wake

\* C17: every key of processed_buffer maps to a non-empty list, in the store and
\* in every snapshot taken from it: add_to_buffer, clear_buffer,
\* should_process_buffer and log_stats leave no empty bucket behind, and
\* log_stats leaves the store as it found it.
C17_NoEmptyBucket ==
    /\ [](/\ NoEmptyBucket(processed_buffer)
          /\ NoEmptyBucket(buffer)
          /\ \A j \in 1..Len(snapshots) : NoEmptyBucket(snapshots[j])
          /\ Truthy(processed_buffer) <=> BufferSize(processed_buffer) > 0)
    /\ [][IsLogStats => processed_buffer' = processed_buffer]_vars

\* log_stats has run, the store has been appended to, polled and drained, and
\* holds two buckets again.
C17_Witness ==
    /\ stats_wake = StatsInterval
    /\ snapshots # <<>>
    /\ Cardinality(DOMAIN processed_buffer) = 2
    /\ flush_pc = "poll"
    /\ flush_wake > now

\* Number of places of a mapping at which event n sits
CountIn(buf, n) ==
    Cardinality({ki \in UNION {{<<k, i>> : i \in 1..Len(buf[k])} : k \in DOMAIN buf} :
                    buf[ki[1]][ki[2]].n = n})

\* Number of drained snapshots that hold event n
RECURSIVE SnapshotsWith(_, _)
SnapshotsWith(snaps, n) ==
    IF snaps = <<>> THEN 0
    ELSE CountIn(Head(snaps), n) + SnapshotsWith(Tail(snaps), n)

\* C20: whatever the interleaving of add_to_buffer with the flush scheduler's
\* should_process_buffer and clear_buffer, every event add_to_buffer has taken
\* is either still in the store, once, or in exactly one drained snapshot, once:
\* it is never lost and never drained twice, also when it was appended between
\* the readiness check and the drain; and the store and the snapshots hold
\* nothing else.
C20_EachEventDrainedOnce ==
    /\ \A n \in accepted :
           CountIn(processed_buffer, n) + SnapshotsWith(snapshots, n) = 1
    /\ EventsOf(processed_buffer) \subseteq accepted
    /\ \A j \in 1..Len(snapshots) : EventsOf(snapshots[j]) \subseteq accepted
    /\ flush_pc = "render" => buffer = snapshots[Len(snapshots)]

\* should_process_buffer said yes on a store of one event, a second event was
\* appended before clear_buffer ran, and the snapshot holds both; an earlier
\* snapshot holds the first event accepted.
C20_Witness ==
    /\ flush_pc = "render"
    /\ seen = 1
    /\ BufferSize(buffer) = 2
    /\ Len(snapshots) = 2
    /\ Cardinality(accepted) = 3
    /\ ~Truthy(processed_buffer)

---------------------------------------------------------------------------
(* Properties of the rendered link *)

\* The link is a query and names the flow ids
HasFlowIdList(l) ==
    /\ l.url.kind = "query"
    /\ \E i \in 1..Len(l.url.filter) : l.url.filter[i].field = "id"

\* The link is a query and names rule sid
HasRuleId(l, sid) ==
    /\ l.url.kind = "query"
    /\ \E i \in 1..Len(l.url.filter) :
           l.url.filter[i] = [field |-> "alert.sid", op |-> "==", value |-> sid]

\* C18: the link create_group_link builds for a bucket names the flow ids iff
\* the bucket has at most 10 events; a bucket of more than 10 events gets no
\* flow-id filter, also when some of its events carry no flow id.
C18_FlowIdListIffAtMostTenEvents ==
    link.url.kind = "query" => (HasFlowIdList(link) <=> Len(alerts) <= FlowIdLimit)

\* C19 as claimed: for every bucket and both values of force_session_link the
\* trailing link is a query that names the bucket's rule id.
C19_LinkNamesRuleId ==
    (link # NoLink /\ alerts[1].s_id # <<>>) => HasRuleId(link, alerts[1].s_id)

\* C19 as amended: the trailing link is the query of create_group_link, which
\* names the bucket's rule id when the bucket has one, except for a bucket of a
\* single event under force_session_link, whose link is that event's flow_url.
C19_LinkNamesRuleIdUnlessSessionLink ==
    link # NoLink =>
        IF Len(alerts) = 1 /\ force_session_link
        THEN /\ link.url = alerts[1].flow_url
             /\ link.text = "View Session in NAD"
             /\ ~HasRuleId(link, alerts[1].s_id)
        ELSE /\ link.url.kind = "query"
             /\ link.text = "View All Alerts in NAD"
             /\ alerts[1].s_id # <<>> => HasRuleId(link, alerts[1].s_id)
             /\ alerts[1].s_id = <<>> =>
                    \A i \in 1..Len(link.url.filter) : link.url.filter[i].field # "alert.sid"

\* A bucket of one event of rule 1001 was rendered under force_session_link: its
\* link is the session link.
C19_Witness ==
    /\ force_session_link
    /\ Len(alerts) = 1
    /\ alerts[1].s_id = <<1001>>
    /\ link.url.kind = "session"

---------------------------------------------------------------------------
(* Termination of the delivery worker *)

\* The sender is in a sleep that ends after the horizon of the model.
BeyondHorizon ==
    /\ sender_pc \in {"rate_sleep", "backoff"}
    /\ sender_wake > MaxSendTime

\* Every digest enqueued so far has reached Sent or Failed: none is queued and
\* none is in the sender's hands, asleep or not.
AllFinished ==
    /\ \A n \in 1..produced : \E i \in 1..Len(done) : done[i].n = n
    /\ outgoing_queue = <<>>
    /\ sender_pc = "get"

\* C21: under fair scheduling and a transport whose calls always return, again
\* and again every digest put on the outgoing queue so far has been dequeued
\* and has ended Sent or Failed (unless a sleep of the sender ends after the
\* horizon), each after at most max_retries attempts: the sender does not stay
\* in a rate-limit or backoff sleep, it never ends, and task_done has been
\* called exactly once for each digest finished, none for the one in hand.
C21_EveryDigestFinishes ==
    /\ [](/\ task_done = Len(done)
          /\ \A i \in 1..Len(done) :
                /\ done[i].n = i
                /\ done[i].result \in {"Sent", "Failed"}
                /\ done[i].attempts \in 1..max_retries
                /\ CountOf(transport_log, i) = done[i].attempts
          /\ attempt < max_retries
          /\ sender_pc # "terminated"
          /\ Len(done) + Len(outgoing_queue) + (IF Sending THEN 1 ELSE 0) = produced)
    /\ []<>(AllFinished \/ BeyondHorizon)

\* All the digests enqueued are finished and accounted for: the first waited
\* out the rate limit and Failed after three attempts and two backoff sleeps,
\* the last was Sent.
C21_Witness ==
    /\ produced = MaxDigests
    /\ Len(done) = MaxDigests
    /\ task_done = MaxDigests
    /\ outgoing_queue = <<>>
    /\ sender_pc = "get"
    /\ Failed(1) /\ done[1].attempts = max_retries
    /\ done[1].first = TELEGRAM_SEND_INTERVAL
    /\ Sent(MaxDigests)

=============================================================================
